---------------------------- MODULE Spec2Model ----------------------------
(***************************************************************************)
(* A model of the Solid generator of Mitosis,                              *)
(* packages/core/src/generators/solid/index.ts.                            *)
(*                                                                         *)
(* Texts.  A JavaScript string is a sequence of pieces (TLA+ strings);     *)
(* concatenation is \o on sequences.  The strings the code inspects        *)
(* (includes('.'), trim(), truthiness) are tokenised so that a dot and a   *)
(* run of white space are pieces of their own; the fragments of a template *)
(* literal are one piece each and the layout white space between them is   *)
(* not represented.                                                        *)
(*                                                                         *)
(* Objects.  A JavaScript object with ordered keys (properties, bindings,  *)
(* context.set) is a sequence of entries, each with its key.               *)
(***************************************************************************)
EXTENDS Integers, Sequences, FiniteSets, TLC

\* ------------------------------------------------------------------ bounds
MaxChildren == 2   \* root children of a component given to the generator
MaxPlugins  == 2   \* user plugins in options.plugins
MaxUpdates  == 1   \* entries of hooks.onUpdate
MaxCalls    == 2   \* calls of the generator on the same component
MaxBody     == 2   \* children of a probed For node

\* ------------------------------------------------------------------- texts
IsBlank(p) == p \in {"", " ", "\n"}

\* JavaScript truthiness of a string: it is not empty.
Truthy(t) == \E i \in DOMAIN t : t[i] # ""

RECURSIVE TextLength(_)
TextLength(t) == IF t = <<>> THEN 0 ELSE Len(Head(t)) + TextLength(Tail(t))

RECURSIVE TrimStart(_)
TrimStart(t) == IF t # <<>> /\ IsBlank(Head(t)) THEN TrimStart(Tail(t)) ELSE t

RECURSIVE TrimEnd(_)
TrimEnd(t) ==
  IF t # <<>> /\ IsBlank(t[Len(t)]) THEN TrimEnd(SubSeq(t, 1, Len(t) - 1)) ELSE t

\* String.prototype.trim
Trim(t) == TrimEnd(TrimStart(t))

\* String.prototype.includes('.')
IncludesDot(t) == \E i \in DOMAIN t : t[i] = "."

\* Array.prototype.join over an array of texts
RECURSIVE JoinTexts(_, _)
JoinTexts(ts, sep) ==
  IF ts = <<>> THEN <<>>
  ELSE IF Len(ts) = 1 THEN ts[1]
  ELSE ts[1] \o sep \o JoinTexts(Tail(ts), sep)

RECURSIVE JoinStrings(_, _)
JoinStrings(ss, sep) ==
  IF ss = <<>> THEN ""
  ELSE IF Len(ss) = 1 THEN ss[1]
  ELSE ss[1] \o sep \o JoinStrings(Tail(ss), sep)

\* ----------------------------------------------------------------- objects
HasKey(obj, k) == \E i \in DOMAIN obj : obj[i].key = k

Entry(obj, k) == obj[CHOOSE i \in DOMAIN obj : obj[i].key = k]

\* obj[k] = e, keeping the place of a key the object already has
SetKey(obj, e) ==
  IF HasKey(obj, e.key)
  THEN [i \in DOMAIN obj |-> IF obj[i].key = e.key THEN e ELSE obj[i]]
  ELSE Append(obj, e)

Prop(k, v) == [key |-> k, value |-> v]

Binding(k, c) ==
  [key |-> k, code |-> c, type |-> "single", hasArguments |-> FALSE, arguments |-> <<>>]

NoScope == [forName |-> "", indexName |-> ""]

\* createMitosisNode: the defaults of a node
MitosisNode(name, properties, bindings, children) ==
  [name |-> name, properties |-> properties, bindings |-> bindings,
   children |-> children, scope |-> NoScope, metaElse |-> <<>>]


\* ------------------------------------------------- the helpers it imports
\* filterEmptyTextNodes: a node is kept unless its _text property is a string
\* that is empty once trimmed.
filterEmptyTextNodes(node) ==
  ~(HasKey(node.properties, "_text") /\ Trim(Entry(node.properties, "_text").value) = <<>>)

\* checkIsForNode
checkIsForNode(node) == node.name = <<"For">>

\* selfClosingTags
selfClosingTags == {<<"img">>, <<"input">>, <<"br">>, <<"hr">>}

\* key.startsWith('on'), over the binding keys of the model
StartsWithOn(key) == key \in {"onClick", "onChange"}

\* kebabCase of a top-level key of a style object
KebabCase(p) == IF p = "fontSize" THEN "\"font-size\"" ELSE p

\* babelTransformExpression with the ObjectExpression visitor of blockToSolid
KebabStyle(code) == [i \in DOMAIN code |-> KebabCase(code[i])]

\* ------------------------------------------------------ collectClassString
StaticClasses(json) ==
  (IF HasKey(json.properties, "class") /\ Truthy(Entry(json.properties, "class").value)
   THEN <<Entry(json.properties, "class").value>> ELSE <<>>)
  \o
  (IF HasKey(json.properties, "className")
      /\ Truthy(Entry(json.properties, "className").value)
   THEN <<Entry(json.properties, "className").value>> ELSE <<>>)

\* the css binding counts when its trimmed code is longer than 4 characters and
\* the styles are styled-components
CssCounts(json, options) ==
  /\ HasKey(json.bindings, "css")
  /\ TextLength(Trim(Entry(json.bindings, "css").code)) > 4
  /\ options.stylesType = "styled-components"

DynamicClasses(json, options) ==
  (IF HasKey(json.bindings, "class") THEN <<Entry(json.bindings, "class").code>> ELSE <<>>)
  \o
  (IF HasKey(json.bindings, "className")
   THEN <<Entry(json.bindings, "className").code>> ELSE <<>>)
  \o
  (IF CssCounts(json, options)
   THEN << <<"css(">> \o Entry(json.bindings, "css").code \o <<")">> >> ELSE <<>>)

\* the node once collectClassString has deleted the keys it consumed
ClassKeysDeleted(json) ==
  [json EXCEPT
     !.properties =
        LET Kept(e) ==
              ~(e.key \in {"class", "className"} /\ Truthy(e.value))
        IN SelectSeq(json.properties, Kept),
     !.bindings =
        LET Kept(e) == e.key \notin {"class", "className", "css"}
        IN SelectSeq(json.bindings, Kept)]

\* ClassString without the space that separates the static from the dynamic classes
ClassStringNoSpace(staticClasses, dynamicClasses) ==
  LET staticClassesString  == JoinTexts(staticClasses, <<" ">>)
      dynamicClassesString == JoinTexts(dynamicClasses, <<" + ' ' + ">>)
  IN IF Len(staticClasses) # 0 /\ Len(dynamicClasses) = 0
     THEN [isNull |-> FALSE, str |-> <<"\"">> \o staticClassesString \o <<"\"">>]
     ELSE IF Len(dynamicClasses) # 0 /\ Len(staticClasses) = 0
     THEN [isNull |-> FALSE, str |-> <<"{">> \o dynamicClassesString \o <<"}">>]
     ELSE IF Len(dynamicClasses) # 0 /\ Len(staticClasses) # 0
     THEN [isNull |-> FALSE,
           str |-> <<"{\"">> \o staticClassesString \o <<"\" + ">>
                   \o dynamicClassesString \o <<"}">>]
     ELSE [isNull |-> TRUE, str |-> <<>>]

ClassString(staticClasses, dynamicClasses) ==
  LET staticClassesString  == JoinTexts(staticClasses, <<" ">>)
      dynamicClassesString == JoinTexts(dynamicClasses, <<" + ' ' + ">>)
      hasStaticClasses     == Len(staticClasses) # 0
      hasDynamicClasses    == Len(dynamicClasses) # 0
  IN IF hasStaticClasses /\ ~hasDynamicClasses
     THEN [isNull |-> FALSE, str |-> <<"\"">> \o staticClassesString \o <<"\"">>]
     ELSE IF hasDynamicClasses /\ ~hasStaticClasses
     THEN [isNull |-> FALSE, str |-> <<"{">> \o dynamicClassesString \o <<"}">>]
     ELSE IF hasDynamicClasses /\ hasStaticClasses
     THEN [isNull |-> FALSE,
           str |-> <<"{\"">> \o staticClassesString \o <<" \" + ">>
                   \o dynamicClassesString \o <<"}">>]
     ELSE [isNull |-> TRUE, str |-> <<>>]

\* collectClassString: what it returns (null, or a string) and the node it
\* leaves behind
collectClassString(json, options) ==
  LET r == ClassString(StaticClasses(json), DynamicClasses(json, options))
  IN [isNull |-> r.isNull, str |-> r.str, json |-> ClassKeysDeleted(json)]

\* ------------------------------------------------------------ blockToSolid
PropertyString(e) == <<" ", e.key, "=\"">> \o e.value \o <<"\" ">>

BindingString(json, e) ==
  IF ~Truthy(e.code) THEN <<>>
  ELSE IF e.type = "spread" THEN <<" {...(">> \o e.code \o <<")} ">>
  ELSE IF StartsWithOn(e.key)
  THEN LET useKey == IF e.key = "onChange" /\ json.name = <<"input">>
                     THEN "onInput" ELSE e.key
           cusArg == IF e.hasArguments THEN e.arguments ELSE <<"event">>
       IN <<" ", useKey, "={(", JoinStrings(cusArg, ","), ") => ">> \o e.code \o <<"} ">>
  ELSE LET useValue == IF e.key = "style" THEN KebabStyle(e.code) ELSE e.code
       IN <<" ", e.key, "={">> \o useValue \o <<"} ">>

RECURSIVE ConcatTexts(_)
ConcatTexts(ts) == IF ts = <<>> THEN <<>> ELSE Head(ts) \o ConcatTexts(Tail(ts))

ForNeedsWrapper(json) == Len(json.children) # 1

\* the text of a For node around its rendered children
ForString(json, needsWrapper, rendered) ==
  <<"<For each={">>
  \o (IF HasKey(json.bindings, "each") THEN Entry(json.bindings, "each").code
      ELSE <<"undefined">>)
  \o <<"}>", "{(", json.scope.forName, ", _index) => {", "const ",
       IF json.scope.indexName # "" THEN json.scope.indexName ELSE "index",
       " = _index();", "return ", IF needsWrapper THEN "<>" ELSE "">>
  \o JoinTexts(rendered, <<",">>)
  \o <<"}}", IF needsWrapper THEN "</>" ELSE "", "</For>">>

RECURSIVE blockToSolid(_, _)
blockToSolid(json, options) ==
  IF HasKey(json.properties, "_text") /\ Truthy(Entry(json.properties, "_text").value)
  THEN Entry(json.properties, "_text").value
  ELSE IF HasKey(json.bindings, "_text") /\ Truthy(Entry(json.bindings, "_text").code)
  THEN <<"{">> \o Entry(json.bindings, "_text").code \o <<"}">>
  ELSE
  LET kept     == SelectSeq(json.children, filterEmptyTextNodes)
      rendered == [i \in DOMAIN kept |-> blockToSolid(kept[i], options)]
  IN IF checkIsForNode(json)
     THEN ForString(json, ForNeedsWrapper(json), rendered)
     ELSE
     LET class == collectClassString(json, options)
         after == class.json
         open  == IF json.name = <<"Fragment">> THEN <<"<">>
                  ELSE <<"<">> \o json.name \o <<" ">>
         fallback ==
           IF json.name = <<"Show">> /\ json.metaElse # <<>>
           THEN <<"fallback={">> \o blockToSolid(json.metaElse[1], options) \o <<"}">>
           ELSE <<>>
         classAttr == IF ~class.isNull /\ Truthy(class.str)
                      THEN <<" class=">> \o class.str \o <<" ">> ELSE <<>>
         props == ConcatTexts([i \in DOMAIN after.properties |->
                                 PropertyString(after.properties[i])])
         binds == ConcatTexts([i \in DOMAIN after.bindings |->
                                 BindingString(json, after.bindings[i])])
         str   == open \o fallback \o classAttr \o props \o binds
     IN IF json.name \in selfClosingTags THEN str \o <<" />">>
        ELSE str \o <<">">> \o JoinTexts(rendered, <<"\n">>)
             \o (IF json.name = <<"Fragment">> THEN <<"</>">>
                 ELSE <<"</">> \o json.name \o <<">">>)

\* the node blockToSolid leaves behind: collectClassString has deleted the class
\* keys of every node it rendered
RECURSIVE blockToSolidEffect(_, _)
blockToSolidEffect(json, options) ==
  IF HasKey(json.properties, "_text") /\ Truthy(Entry(json.properties, "_text").value)
  THEN json
  ELSE IF HasKey(json.bindings, "_text") /\ Truthy(Entry(json.bindings, "_text").code)
  THEN json
  ELSE
  LET Walk(c) == IF filterEmptyTextNodes(c) THEN blockToSolidEffect(c, options) ELSE c
      children == [i \in DOMAIN json.children |-> Walk(json.children[i])]
  IN IF checkIsForNode(json) THEN [json EXCEPT !.children = children]
     ELSE
     LET after == collectClassString(json, options).json
         else  == IF json.name = <<"Show">> /\ json.metaElse # <<>>
                  THEN <<blockToSolidEffect(json.metaElse[1], options)>>
                  ELSE json.metaElse
     IN IF json.name \in selfClosingTags THEN [after EXCEPT !.metaElse = else]
        ELSE [after EXCEPT !.metaElse = else, !.children = children]


\* ------------------------------------------------ processDynamicComponents
\* the binding { code: node.name } the traversal stores
ComponentBinding(name) ==
  [key |-> "component", code |-> name, type |-> "undefined",
   hasArguments |-> FALSE, arguments |-> <<>>]

\* the callback with its two assignments in the other order
DynamicRewriteRenameFirst(node) ==
  IF IncludesDot(node.name)
  THEN [node EXCEPT !.bindings = SetKey(node.bindings, ComponentBinding(<<"Dynamic">>)),
                    !.name = <<"Dynamic">>]
  ELSE node

\* what the traversal callback does to one node
DynamicRewrite(node) ==
  IF IncludesDot(node.name)
  THEN [node EXCEPT !.bindings = SetKey(node.bindings, ComponentBinding(node.name)),
                    !.name = <<"Dynamic">>]
  ELSE node

\* traverse(json).forEach over one node and the nodes below it (children, meta)
RECURSIVE DynamicNode(_)
DynamicNode(node) ==
  LET n == DynamicRewrite(node)
  IN [n EXCEPT !.children = [i \in DOMAIN n.children |-> DynamicNode(n.children[i])],
               !.metaElse = [i \in DOMAIN n.metaElse |-> DynamicNode(n.metaElse[i])]]

RECURSIVE NodeHasDot(_)
NodeHasDot(node) ==
  \/ IncludesDot(node.name)
  \/ \E i \in DOMAIN node.children : NodeHasDot(node.children[i])
  \/ \E i \in DOMAIN node.metaElse : NodeHasDot(node.metaElse[i])

\* processDynamicComponents: the component it leaves and the flag it returns
processDynamicComponents(json) ==
  [json  |-> [json EXCEPT !.children =
                 [i \in DOMAIN json.children |-> DynamicNode(json.children[i])]],
   found |-> \E i \in DOMAIN json.children : NodeHasDot(json.children[i])]

\* ---------------------------------------------------- addProviderComponents
\* stringifyContextValue
stringifyContextValue(value) == <<"{">> \o value \o <<"}">>

ProviderNode(entry, children) ==
  MitosisNode(entry.name \o <<".", "Provider">>, <<>>,
              IF Truthy(entry.value)
              THEN <<[key |-> "value", code |-> stringifyContextValue(entry.value),
                      type |-> "undefined", hasArguments |-> FALSE, arguments |-> <<>>]>>
              ELSE <<>>,
              children)

RECURSIVE WrapProviders(_, _)
WrapProviders(children, set) ==
  IF set = <<>> THEN children
  ELSE WrapProviders(<<ProviderNode(Head(set), children)>>, Tail(set))

addProviderComponents(json) ==
  [json EXCEPT !.children = WrapProviders(json.children, json.context.set)]

\* ------------------------------------------- helpers of componentToSolid
RECURSIVE NodeHasCss(_)
NodeHasCss(node) ==
  \/ HasKey(node.bindings, "css")
  \/ \E i \in DOMAIN node.children : NodeHasCss(node.children[i])

\* hasCss
hasCss(json) == \E i \in DOMAIN json.children : NodeHasCss(json.children[i])

RECURSIVE NodeCss(_, _)
NodeCss(node, prefix) ==
  (IF HasKey(node.bindings, "css")
   THEN <<".", prefix, " ">> \o Entry(node.bindings, "css").code \o <<"\n">>
   ELSE <<>>)
  \o ConcatTexts([i \in DOMAIN node.children |-> NodeCss(node.children[i], prefix)])

\* collectCss: the aggregated stylesheet of the tree
collectCss(json, prefix) ==
  ConcatTexts([i \in DOMAIN json.children |-> NodeCss(json.children[i], prefix)])

RECURSIVE NodeNames(_)
NodeNames(node) ==
  {node.name} \cup UNION {NodeNames(node.children[i]) : i \in DOMAIN node.children}

\* getComponentsUsed
getComponentsUsed(json) ==
  UNION {NodeNames(json.children[i]) : i \in DOMAIN json.children}

\* hasContext
hasContext(json) == json.context.get # <<>> \/ json.context.set # <<>>

\* getState, for a component without state
getState(json) == [str |-> <<>>, solidjs |-> <<>>, store |-> <<>>]

\* stripMetaProperties: the model's nodes carry no meta properties
stripMetaProperties(json) == json

\* uniq(S.Eq): the first occurrence of each string is kept
RECURSIVE uniq(_)
uniq(ss) ==
  IF ss = <<>> THEN <<>>
  ELSE LET rest == uniq(SubSeq(ss, 1, Len(ss) - 1))
           last == ss[Len(ss)]
       IN IF \E i \in DOMAIN rest : rest[i] = last THEN rest ELSE Append(rest, last)

\* the default of DEFAULT_OPTIONS for an option the caller leaves out
mergeOptions(passed) ==
  [stylesType |-> IF passed.stylesType = "undefined" THEN "styled-components"
                  ELSE passed.stylesType,
   prettier   |-> passed.prettier,
   plugins    |-> passed.plugins]

\* --------------------------------------------------- the assembled module
OnUpdateNeedsImports(json) == Len(json.hooks.onUpdate) # 0

SolidJSImports(json) ==
  LET componentsUsed == getComponentsUsed(json)
  IN uniq(
       (IF hasContext(json) THEN <<"useContext">> ELSE <<>>)
       \o (IF <<"Show">> \in componentsUsed THEN <<"Show">> ELSE <<>>)
       \o (IF <<"For">> \in componentsUsed THEN <<"For">> ELSE <<>>)
       \o (IF Truthy(json.hooks.onMount) THEN <<"onMount">> ELSE <<>>)
       \o (IF OnUpdateNeedsImports(json) THEN <<"on", "createEffect">> ELSE <<>>)
       \o getState(json).solidjs)

getContextString(json) ==
  ConcatTexts([i \in DOMAIN json.context.get |->
     <<"const ", json.context.get[i].key, " = useContext(">>
     \o json.context.get[i].name \o <<");">>])

OnUpdateString(hook, index) ==
  IF hook.hasDeps /\ Truthy(hook.deps)
  THEN <<"function onUpdateFn_", ToString(index), "() { ">> \o hook.code
       \o <<" };", "createEffect(on(() => ">> \o hook.deps
       \o <<", onUpdateFn_", ToString(index), "));">>
  ELSE <<"">>

\* (the back quotes around the stylesheet are not representable in a TLA+ string)
StyleBlock(options, css) ==
  IF options.stylesType = "style-tag" /\ TextLength(Trim(css)) > 4
  THEN <<"<style jsx>{">> \o css \o <<"}</style>">>
  ELSE <<"">>

\* lines 335-387: the template of the module text
ModuleText(json, options, imports, found, componentHasStyles, addWrapper, css) ==
  LET kept == SelectSeq(json.children, filterEmptyTextNodes)
  IN <<IF Len(imports) > 0 THEN "import { " \o JoinStrings(imports, ", ")
                                \o " } from 'solid-js';" ELSE "",
       IF ~found THEN "" ELSE "import { Dynamic } from 'solid-js/web';",
       IF Len(getState(json).store) > 0 THEN "import { } from 'solid-js/store';" ELSE "",
       IF ~componentHasStyles /\ options.stylesType = "styled-components" THEN ""
       ELSE "import { css } from \"solid-styled-components\";",
       "function ", json.name, "(props) {">>
     \o getState(json).str
     \o getContextString(json)
     \o (IF ~Truthy(json.hooks.onMount) THEN <<"">>
         ELSE <<"onMount(() => { ">> \o json.hooks.onMount \o <<" })">>)
     \o JoinTexts([i \in DOMAIN json.hooks.onUpdate |->
                     OnUpdateString(json.hooks.onUpdate[i], i - 1)], <<"\n">>)
     \o <<"return (", IF addWrapper THEN "<>" ELSE "">>
     \o JoinTexts([i \in DOMAIN kept |-> blockToSolid(kept[i], options)], <<"\n">>)
     \o StyleBlock(options, css)
     \o <<IF addWrapper THEN "</>" ELSE "", ")", "}", "export default ", json.name, ";">>

\* the component once its root children are rendered (collectClassString
\* deletes class keys as it goes)
RenderedComponent(json, options) ==
  LET Walk(c) == IF filterEmptyTextNodes(c) THEN blockToSolidEffect(c, options) ELSE c
  IN [json EXCEPT !.children = [i \in DOMAIN json.children |-> Walk(json.children[i])]]


\* ------------------------------------------------------------ the plugins
\* updateStateCode: a read of state.x becomes the signal call x(); with
\* updateSetters an assignment to state.x becomes a call of its setter
updateStateCode(updateSetters, code) ==
  [i \in DOMAIN code |->
     IF code[i] = "state.x" THEN "x()"
     ELSE IF updateSetters /\ code[i] = "state.x = 1" THEN "setX(1)"
     ELSE code[i]]

RECURSIVE ProcessNode(_)
ProcessNode(node) ==
  [node EXCEPT
     !.properties = [i \in DOMAIN @ |->
                       [@[i] EXCEPT !.value = updateStateCode(FALSE, @)]],
     !.bindings   = [i \in DOMAIN @ |->
                       [@[i] EXCEPT !.code = updateStateCode(TRUE, @)]],
     !.children   = [i \in DOMAIN @ |-> ProcessNode(@[i])]]

\* the hook of CODE_PROCESSOR_PLUGIN: every expression of the component goes
\* through the code processor the generator gave it
ProcessCode(json) ==
  [json EXCEPT
     !.children = [i \in DOMAIN @ |-> ProcessNode(@[i])],
     !.hooks.onMount = updateStateCode(TRUE, @),
     !.hooks.onUpdate = [i \in DOMAIN @ |->
                           [@[i] EXCEPT !.code = updateStateCode(TRUE, @)]]]

\* a plugin is the hooks it registers, one per stage ("none": no hook)
NoHooks == [pre |-> "none", post |-> "none", preCode |-> "none", postCode |-> "none"]

\* CODE_PROCESSOR_PLUGIN: one JSON hook, on the stage given
CODE_PROCESSOR_PLUGIN(stage) ==
  IF stage = "preJson" THEN [NoHooks EXCEPT !.pre = "process"]
  ELSE [NoHooks EXCEPT !.post = "process"]

HookOf(plugin, stage) ==
  CASE stage = "preJson"  -> plugin.pre
    [] stage = "postJson" -> plugin.post
    [] stage = "preCode"  -> plugin.preCode
    [] stage = "postCode" -> plugin.postCode

SpanNode == MitosisNode(<<"span">>, <<>>, <<>>, <<>>)

\* what a JSON hook returns
ApplyJsonHook(hook, json) ==
  CASE hook = "addChild" -> [json EXCEPT !.children = Append(@, SpanNode)]
    [] hook = "rename"   -> [json EXCEPT !.name = @ \o "_"]
    [] hook = "process"  -> ProcessCode(json)
    [] OTHER             -> json

\* what a code hook returns
ApplyCodeHook(hook, code) ==
  CASE hook = "addLine" -> Append(code, "// plugin")
    [] OTHER            -> code

\* the formatter, when it accepts the text: blank pieces go
format(code) == LET Inked(piece) == ~IsBlank(piece) IN SelectSeq(code, Inked)

\* --------------------------------------------------------- componentToSolid
\* the local `json` naming the caller's object
JsonTargetAliased == "component"

\* line 283: the object the local `json` names is the deep clone
JsonTarget == "clone"

\* fastClone: a deep copy (the value, in a new object)
fastClone(json) == json

\* the code processor put in front of the user's plugins
PluginListProcessorFirst(userPlugins, processor) == <<processor>> \o userPlugins

\* lines 286-295: the user's plugins, then the code processor
PluginList(userPlugins, processor) == userPlugins \o <<processor>>

\* the formatter run only when the prettier option is true
FormatEnabledWhenTrue(options) == options.prettier = "true"

\* line 392
FormatEnabled(options) == options.prettier # "false"

\* lines 302-303
AddWrapper(json, options) ==
  Len(SelectSeq(json.children, filterEmptyTextNodes)) # 1
  \/ options.stylesType = "style-tag"

\* the steps with the providers added after the PostJson plugins
StageAfterPreprocessLate(stage, options) ==
  CASE stage = "preJson"    -> "postJson"
    [] stage = "postJson"   -> "preprocess"
    [] stage = "preprocess" -> "assemble"
    [] stage = "assemble"   -> "preCode"
    [] stage = "preCode"    -> IF options.prettier # "false" THEN "format" ELSE "postCode"
    [] stage = "format"     -> "postCode"
    [] stage = "postCode"   -> "return"

\* the steps with the formatter run after the PostCode plugins
StageAfterFormatLast(stage, options) ==
  CASE stage = "preJson"    -> "preprocess"
    [] stage = "preprocess" -> "postJson"
    [] stage = "postJson"   -> "assemble"
    [] stage = "assemble"   -> "preCode"
    [] stage = "preCode"    -> "postCode"
    [] stage = "postCode"   -> IF options.prettier # "false" THEN "format" ELSE "return"
    [] stage = "format"     -> "return"

\* the order of the steps of componentToSolid, lines 297-401
StageAfter(stage, options) ==
  CASE stage = "preJson"    -> "preprocess"
    [] stage = "preprocess" -> "postJson"
    [] stage = "postJson"   -> "assemble"
    [] stage = "assemble"   -> "preCode"
    [] stage = "preCode"    -> IF FormatEnabled(options) THEN "format" ELSE "postCode"
    [] stage = "format"     -> "postCode"
    [] stage = "postCode"   -> "return"


\* ------------------------------------------------------------------ state
VARIABLES
  component,       \* the caller's Component object
  passedOptions,   \* the options the caller passes
  processorStage,  \* the JSON stage CODE_PROCESSOR_PLUGIN hooks on
  clone,           \* the object fastClone made for the running call
  jsonRef,         \* the object the local `json` names
  options,         \* the merged options of the running call
  pc,              \* where the running call stands
  idx,             \* the plugin the running plugin stage is at
  locals,          \* componentHasStyles, addWrapper, foundDynamicComponents, css, solidJSImports
  str,             \* the local `str`
  result,          \* what the last finished call gave its caller
  calls,           \* calls made so far
  given,           \* the component as the caller built it
  firstResult,     \* what the first call gave its caller
  log,             \* the steps of the running call, in order
  probe            \* a node a rendering function is applied to

vars == <<component, passedOptions, processorStage, clone, jsonRef, options, pc, idx,
          locals, str, result, calls, given, firstResult, log, probe>>

\* the object the local `json` names
Json == IF jsonRef = "clone" THEN clone ELSE component

\* a write through `json`
SetJson(v) ==
  IF jsonRef = "clone" THEN clone' = v /\ UNCHANGED component
  ELSE component' = v /\ UNCHANGED clone

NoLocals ==
  [componentHasStyles |-> FALSE, addWrapper |-> FALSE, foundDynamicComponents |-> FALSE,
   css |-> <<>>, solidJSImports |-> <<>>]

NoResult == [kind |-> "none", text |-> <<>>]

LogEntry(stage, who, i, threw, in, out) ==
  [stage |-> stage, who |-> who, idx |-> i, threw |-> threw, in |-> in, out |-> out]

\* ----------------------------------------------------------------- inputs
Div == MitosisNode(<<"div">>, <<>>, <<>>, <<>>)

Dotted == MitosisNode(<<"foo", ".", "bar">>, <<>>, <<>>, <<>>)

BlankText == MitosisNode(<<"div">>, <<Prop("_text", <<" ">>)>>, <<>>, <<>>)

Styled ==
  MitosisNode(<<"div">>, <<Prop("class", <<"a">>)>>,
              <<Binding("css", <<"{", "color", ":", "'red'", "}">>)>>, <<>>)

RootKinds == {Div, Dotted, BlankText, Styled}

SeqsUpTo(S, n) == UNION {[1..k -> S] : k \in 0..n}

Contexts ==
  {[get |-> <<>>, set |-> <<>>],
   [get |-> <<[key |-> "theme", name |-> <<"Theme">>]>>,
    set |-> <<[key |-> "Ctx.key", name |-> <<"Ctx">>, value |-> <<"a: 1">>]>>]}

UpdateKinds ==
  {[code |-> <<"state.x = 1">>, hasDeps |-> TRUE, deps |-> <<"[", "state.x", "]">>],
   [code |-> <<"state.x = 1">>, hasDeps |-> FALSE, deps |-> <<>>]}

Components ==
  {[name |-> "MyComponent", children |-> c, context |-> x,
    hooks |-> [onMount |-> <<>>, onUpdate |-> u]] :
     c \in SeqsUpTo(RootKinds, MaxChildren), x \in Contexts,
     u \in SeqsUpTo(UpdateKinds, MaxUpdates)}

\* a plugin with a hook on every stage: its PreJson hook renames the component,
\* its PostJson hook adds a root child, its code hooks add a line
Tagger ==
  [pre |-> "rename", post |-> "addChild", preCode |-> "addLine", postCode |-> "addLine"]

\* a plugin whose hooks return what they are given, or raise
Flaky == [pre |-> "flaky", post |-> "flaky", preCode |-> "flaky", postCode |-> "flaky"]

PluginKinds == {Tagger, Flaky}

PassedOptions ==
  {[stylesType |-> s, prettier |-> f, plugins |-> ps] :
     s \in {"undefined", "style-tag"}, f \in {"undefined", "true", "false"},
     ps \in SeqsUpTo(PluginKinds, MaxPlugins)}

NoProbe == [phase |-> "none"]

Init ==
  /\ component \in Components
  /\ given = component
  /\ passedOptions \in PassedOptions
  /\ processorStage \in {"preJson", "postJson"}
  /\ clone = component
  /\ jsonRef = "clone"
  /\ options = mergeOptions(passedOptions)
  /\ pc = "idle"
  /\ idx = 1
  /\ locals = NoLocals
  /\ str = <<>>
  /\ result = NoResult
  /\ firstResult = NoResult
  /\ calls = 0
  /\ log = <<>>
  /\ probe = NoProbe

\* ---------------------------------------------------------------- actions
\* lines 282-295: a call begins: the clone, the merged options, the plugin list
Call ==
  /\ pc \in {"idle", "done", "failed"}
  /\ calls < MaxCalls
  /\ calls' = calls + 1
  /\ firstResult' = IF calls = 1 THEN result ELSE firstResult
  /\ result' = NoResult
  /\ jsonRef' = JsonTarget
  /\ clone' = fastClone(component)
  /\ options' = [mergeOptions(passedOptions) EXCEPT
                   !.plugins = PluginList(passedOptions.plugins,
                                          CODE_PROCESSOR_PLUGIN(processorStage))]
  /\ pc' = "preJson"
  /\ idx' = 1
  /\ locals' = NoLocals
  /\ str' = <<>>
  /\ log' = <<>>
  /\ UNCHANGED <<component, passedOptions, processorStage, given, probe>>

Who(hook) == IF hook = "process" THEN "processor" ELSE "user"

\* runPreJsonPlugins / runPostJsonPlugins: a fold of the stage's hooks over json
RunJsonPlugins(stage) ==
  /\ pc = stage
  /\ \/ /\ idx <= Len(options.plugins)
        /\ HookOf(options.plugins[idx], stage) = "none"
        /\ idx' = idx + 1
        /\ UNCHANGED <<component, clone, pc, result, log>>
     \/ /\ idx <= Len(options.plugins)
        /\ LET hook == HookOf(options.plugins[idx], stage)
               out  == ApplyJsonHook(hook, Json)
           IN /\ hook # "none"
              /\ SetJson(out)
              /\ log' = Append(log, LogEntry(stage, Who(hook), idx, FALSE, Json, out))
        /\ idx' = idx + 1
        /\ UNCHANGED <<pc, result>>
     \/ /\ idx <= Len(options.plugins)
        /\ HookOf(options.plugins[idx], stage) = "flaky"
        /\ pc' = "failed"
        /\ result' = [kind |-> "error", text |-> <<>>]
        /\ log' = Append(log, LogEntry(stage, "user", idx, TRUE, Json, Json))
        /\ UNCHANGED <<component, clone, idx>>
     \/ /\ idx > Len(options.plugins)
        /\ pc' = StageAfter(stage, options)
        /\ idx' = 1
        /\ UNCHANGED <<component, clone, result, log>>
  /\ UNCHANGED <<passedOptions, processorStage, jsonRef, options, locals, str, calls,
                 given, firstResult, probe>>

\* runPreCodePlugins / runPostCodePlugins: a fold of the stage's hooks over str
RunCodePlugins(stage) ==
  /\ pc = stage
  /\ \/ /\ idx <= Len(options.plugins)
        /\ HookOf(options.plugins[idx], stage) = "none"
        /\ idx' = idx + 1
        /\ UNCHANGED <<str, pc, result, log>>
     \/ /\ idx <= Len(options.plugins)
        /\ LET hook == HookOf(options.plugins[idx], stage)
               out  == ApplyCodeHook(hook, str)
           IN /\ hook # "none"
              /\ str' = out
              /\ log' = Append(log, LogEntry(stage, Who(hook), idx, FALSE, str, out))
        /\ idx' = idx + 1
        /\ UNCHANGED <<pc, result>>
     \/ /\ idx <= Len(options.plugins)
        /\ HookOf(options.plugins[idx], stage) = "flaky"
        /\ pc' = "failed"
        /\ result' = [kind |-> "error", text |-> <<>>]
        /\ log' = Append(log, LogEntry(stage, "user", idx, TRUE, str, str))
        /\ UNCHANGED <<str, idx>>
     \/ /\ idx > Len(options.plugins)
        /\ pc' = StageAfter(stage, options)
        /\ idx' = 1
        /\ UNCHANGED <<str, result, log>>
  /\ UNCHANGED <<component, passedOptions, processorStage, clone, jsonRef, options,
                 locals, calls, given, firstResult, probe>>

\* line 298
runPreJsonPlugins == RunJsonPlugins("preJson")

\* line 305
runPostJsonPlugins == RunJsonPlugins("postJson")

\* line 390
runPreCodePlugins == RunCodePlugins("preCode")

\* line 399
runPostCodePlugins == RunCodePlugins("postCode")

\* lines 300-303: the providers, componentHasStyles, addWrapper
Preprocess ==
  /\ pc = "preprocess"
  /\ LET wrapped == addProviderComponents(Json)
     IN /\ SetJson(wrapped)
        /\ locals' = [locals EXCEPT !.componentHasStyles = hasCss(wrapped),
                                    !.addWrapper = AddWrapper(wrapped, options)]
        /\ log' = Append(log, LogEntry("preprocess", "engine", 0, FALSE, Json, wrapped))
  /\ pc' = StageAfter("preprocess", options)
  /\ UNCHANGED <<passedOptions, processorStage, jsonRef, options, idx, str, result,
                 calls, given, firstResult, probe>>

\* lines 307-387: meta properties, dynamic components, the stylesheet, the
\* imports and the module text
Assemble ==
  /\ pc = "assemble"
  /\ LET dyn     == processDynamicComponents(stripMetaProperties(Json))
         css     == IF options.stylesType = "style-tag"
                    THEN collectCss(dyn.json, "hash") ELSE <<>>
         imports == SolidJSImports(dyn.json)
         text    == ModuleText(dyn.json, options, imports, dyn.found,
                               locals.componentHasStyles, locals.addWrapper, css)
     IN /\ SetJson(RenderedComponent(dyn.json, options))
        /\ locals' = [locals EXCEPT !.foundDynamicComponents = dyn.found,
                                    !.css = css, !.solidJSImports = imports]
        /\ str' = text
        /\ log' = Append(log, LogEntry("assemble", "engine", 0, FALSE, Json, text))
  /\ pc' = StageAfter("assemble", options)
  /\ UNCHANGED <<passedOptions, processorStage, jsonRef, options, idx, result, calls,
                 given, firstResult, probe>>

\* lines 392-397: the formatter accepts the text, or rejects it
Format ==
  /\ pc = "format"
  /\ \/ /\ str' = format(str)
        /\ log' = Append(log, LogEntry("format", "engine", 0, FALSE, str, format(str)))
        /\ pc' = StageAfter("format", options)
        /\ UNCHANGED result
     \/ /\ pc' = "failed"
        /\ result' = [kind |-> "error", text |-> <<>>]
        /\ log' = Append(log, LogEntry("format", "engine", 0, TRUE, str, str))
        /\ UNCHANGED str
  /\ UNCHANGED <<component, passedOptions, processorStage, clone, jsonRef, options, idx,
                 locals, calls, given, firstResult, probe>>

\* line 401
Return ==
  /\ pc = "return"
  /\ pc' = "done"
  /\ result' = [kind |-> "text", text |-> str]
  /\ UNCHANGED <<component, passedOptions, processorStage, clone, jsonRef, options, idx,
                 locals, str, calls, given, firstResult, log, probe>>

Next ==
  \/ Call
  \/ runPreJsonPlugins
  \/ Preprocess
  \/ runPostJsonPlugins
  \/ Assemble
  \/ runPreCodePlugins
  \/ Format
  \/ runPostCodePlugins
  \/ Return

Spec == Init /\ [][Next]_vars


\* ------------------------------------------- the rendering functions alone
TextNode == MitosisNode(<<"div">>, <<Prop("_text", <<"hi">>)>>, <<>>, <<>>)

BodyKinds == {Div, TextNode, BlankText}

ForNodes ==
  {[MitosisNode(<<"For">>, <<>>, <<Binding("each", <<"items">>)>>, body) EXCEPT
      !.scope = [forName |-> "item", indexName |-> i]] :
     body \in SeqsUpTo(BodyKinds, MaxBody), i \in {"", "i"}}

ClassProperties ==
  {c \o n : c \in {<<>>, <<Prop("class", <<>>)>>, <<Prop("class", <<"a">>)>>},
            n \in {<<>>, <<Prop("className", <<"b">>)>>}}

ClassBindings ==
  {c \o n \o s :
     c \in {<<>>, <<Binding("class", <<>>)>>, <<Binding("class", <<"x">>)>>},
     n \in {<<>>, <<Binding("className", <<"y">>)>>},
     s \in {<<>>, <<Binding("css", <<"{", "}">>)>>,
            <<Binding("css", <<" ", "{", "}", " ", " ">>)>>,
            <<Binding("css", <<"{", "color", ":", "'red'", "}">>)>>}}

ClassNodes == {MitosisNode(<<"div">>, p, b, <<>>) : p \in ClassProperties, b \in ClassBindings}

InitBlock ==
  /\ component = [name |-> "MyComponent", children |-> <<>>,
                  context |-> [get |-> <<>>, set |-> <<>>],
                  hooks |-> [onMount |-> <<>>, onUpdate |-> <<>>]]
  /\ given = component
  /\ passedOptions = [stylesType |-> "undefined", prettier |-> "undefined", plugins |-> <<>>]
  /\ processorStage = "postJson"
  /\ clone = component
  /\ jsonRef = "clone"
  /\ options = mergeOptions(passedOptions)
  /\ pc = "idle"
  /\ idx = 1
  /\ locals = NoLocals
  /\ str = <<>>
  /\ result = NoResult
  /\ firstResult = NoResult
  /\ calls = 0
  /\ log = <<>>
  /\ \E n \in ClassNodes \cup ForNodes, s \in {"styled-components", "style-tag"} :
       probe = [phase |-> "input", json |-> n, options |-> [stylesType |-> s]]

\* collectClassString applied to the probed node
CollectClass ==
  /\ probe.phase = "input"
  /\ LET r == collectClassString(probe.json, probe.options)
     IN probe' = [phase |-> "class", json |-> probe.json, options |-> probe.options,
                  isNull |-> r.isNull, str |-> r.str, after |-> r.json]
  /\ UNCHANGED <<component, passedOptions, processorStage, clone, jsonRef, options, pc,
                 idx, locals, str, result, calls, given, firstResult, log>>

\* blockToSolid applied to the probed node
RenderBlock ==
  /\ probe.phase = "input"
  /\ probe' = [phase |-> "rendered", json |-> probe.json, options |-> probe.options,
               str |-> blockToSolid(probe.json, probe.options),
               after |-> blockToSolidEffect(probe.json, probe.options)]
  /\ UNCHANGED <<component, passedOptions, processorStage, clone, jsonRef, options, pc,
                 idx, locals, str, result, calls, given, firstResult, log>>

NextBlock == CollectClass \/ RenderBlock

SpecBlock == InitBlock /\ [][NextBlock]_vars


\* ------------------------------------------------------------- properties
HasPiece(t, p) == \E i \in DOMAIN t : t[i] = p

\* the place of the first piece p of t (0: none)
IndexOf(t, p) ==
  IF HasPiece(t, p) THEN CHOOSE i \in DOMAIN t : t[i] = p /\ \A j \in 1..(i - 1) : t[j] # p
  ELSE 0

ValueOf(obj, k) == IF HasKey(obj, k) THEN <<Entry(obj, k)>> ELSE <<>>

\* a class attribute in the text of an element: the one made of the class
\* string, or a property named class
ClassAttributeIn(t) ==
  \/ HasPiece(t, " class=")
  \/ \E i \in DOMAIN t : i + 2 <= Len(t) /\ t[i] = " " /\ t[i + 1] = "class" /\ t[i + 2] = "=\""

\* the static classes of a node: its class and className properties that hold a
\* non-empty string
C6_Static(n) ==
  LET NonEmpty(e) == e.value # <<>> /\ e.value # <<"">>
      Value(e) == e.value
      es == SelectSeq(ValueOf(n.properties, "class") \o ValueOf(n.properties, "className"),
                      NonEmpty)
  IN [i \in DOMAIN es |-> es[i].value]

\* the dynamic classes of a node: its class and className bindings, and css(...)
\* under styled-components when the trimmed css code is longer than 4 characters
C6_Dynamic(n, o) ==
  LET es == ValueOf(n.bindings, "class") \o ValueOf(n.bindings, "className")
      css == ValueOf(n.bindings, "css")
  IN [i \in DOMAIN es |-> es[i].code]
     \o (IF css # <<>> /\ o.stylesType = "styled-components"
            /\ TextLength(Trim(css[1].code)) > 4
         THEN << <<"css(">> \o css[1].code \o <<")">> >> ELSE <<>>)

C6_Table(static, dynamic, isNull, text) ==
  LET s == JoinTexts(static, <<" ">>)
      d == JoinTexts(dynamic, <<" + ' ' + ">>)
  IN /\ (static # <<>> /\ dynamic = <<>>) => ~isNull /\ text = <<"\"">> \o s \o <<"\"">>
     /\ (static = <<>> /\ dynamic # <<>>) => ~isNull /\ text = <<"{">> \o d \o <<"}">>
     /\ (static # <<>> /\ dynamic # <<>>)
          => ~isNull /\ text = <<"{\"">> \o s \o <<" \" + ">> \o d \o <<"}">>
     /\ (static = <<>> /\ dynamic = <<>>) => isNull

\* C6 (as amended): collectClassString follows the 2x2 table over {static class
\* present, dynamic class present}, where a static class is a class or className
\* property holding a non-empty string and a dynamic class is a class or
\* className binding, or css(...) under styled-components when the trimmed css
\* code is longer than 4 characters: static-only gives the quoted static classes
\* joined by a space, dynamic-only the brace-wrapped dynamic expression, both the
\* brace-wrapped concatenation of the quoted static string followed by a space
\* with the dynamic expression, neither null.  blockToSolid emits the class
\* string as a class attribute exactly when it is not null; with neither present
\* the element has a class attribute only when its class property is the empty
\* string, which collectClassString ignores and leaves to the property loop.
C6_ClassTruthTable ==
  /\ probe.phase = "class" =>
       /\ C6_Table(C6_Static(probe.json), C6_Dynamic(probe.json, probe.options),
                   probe.isNull, probe.str)
       /\ ~HasKey(probe.after.bindings, "css")
  /\ (probe.phase = "rendered" /\ ~checkIsForNode(probe.json)) =>
       LET present == C6_Static(probe.json) # <<>>
                      \/ C6_Dynamic(probe.json, probe.options) # <<>>
       IN /\ HasPiece(probe.str, " class=") <=> present
          /\ (~present /\ ClassAttributeIn(probe.str))
               => (HasKey(probe.json.properties, "class")
                   /\ ~Truthy(Entry(probe.json.properties, "class").value))

\* C6 witness: a node with a static and a dynamic class, css(...) among them, has
\* gone through collectClassString
C6_Witness ==
  /\ probe.phase = "class"
  /\ C6_Static(probe.json) = << <<"a">>, <<"b">> >>
  /\ Len(C6_Dynamic(probe.json, probe.options)) = 3
  /\ ~probe.isNull

\* C6 (as written): a static class is present when the node has a class or
\* className property, and then the function returns a quoted literal (alone) or
\* the brace-wrapped concatenation (with a dynamic class); with no class at all
\* no class attribute is emitted.
C6_Original ==
  /\ probe.phase = "class" =>
       LET static == LET es == ValueOf(probe.json.properties, "class")
                               \o ValueOf(probe.json.properties, "className")
                     IN [i \in DOMAIN es |-> es[i].value]
       IN C6_Table(static, C6_Dynamic(probe.json, probe.options), probe.isNull, probe.str)
  /\ (probe.phase = "rendered" /\ ~checkIsForNode(probe.json)) =>
       (ClassAttributeIn(probe.str)
          <=> (C6_Static(probe.json) # <<>>
               \/ C6_Dynamic(probe.json, probe.options) # <<>>))

\* C7: for a For node the rendered body is wrapped in a fragment only when the
\* body has more than one direct child (one child, and no child, is not wrapped),
\* and a wrapper's opening and closing markers both lie inside the loop callback
\* body, enclosing exactly the rendered children.
C7_ForWrapper ==
  (probe.phase = "rendered" /\ checkIsForNode(probe.json)) =>
    LET t        == probe.str
        open     == IndexOf(t, "<>")
        close    == IndexOf(t, "</>")
        bodyOpen == IndexOf(t, ", _index) => {")
        bodyEnd  == IndexOf(t, "}}")
        kept     == SelectSeq(probe.json.children, filterEmptyTextNodes)
        rendered == [i \in DOMAIN kept |-> blockToSolid(kept[i], probe.options)]
    IN /\ open # 0 <=> Len(probe.json.children) > 1
       /\ open # 0 => /\ bodyOpen < open
                      /\ open < close
                      /\ close < bodyEnd
                      /\ SubSeq(t, open + 1, close - 1) = JoinTexts(rendered, <<",">>)


PluginStages == {"preJson", "postJson", "preCode", "postCode"}

Rank(stage) ==
  CASE stage = "preJson"    -> 1
    [] stage = "preprocess" -> 2
    [] stage = "postJson"   -> 3
    [] stage = "assemble"   -> 4
    [] stage = "preCode"    -> 5
    [] stage = "format"     -> 6
    [] stage = "postCode"   -> 7

\* the places of the log where a step of the stage is recorded
StepsOf(stage) == {i \in DOMAIN log : log[i].stage = stage}

\* C1: in every call the stages run in the order PreJson, PostJson, PreCode,
\* formatter (unless switched off), PostCode and never interleave; within a stage
\* the plugins run in registration order, each receiving what the previous
\* plugin of the stage returned (the first one what the engine's previous step
\* left); the formatter's output is what the first PostCode plugin receives.
C1_StageOrder ==
  /\ \A i, j \in DOMAIN log :
       i < j => /\ Rank(log[i].stage) <= Rank(log[j].stage)
                /\ log[i].stage = log[j].stage => log[i].idx < log[j].idx
  /\ \A i \in DOMAIN log :
       (i > 1 /\ log[i].stage \in {"preJson", "postJson"})
          => log[i].in = log[i - 1].out
  /\ \A i \in DOMAIN log :
       (i > 1 /\ log[i].stage \in {"preCode", "format", "postCode"})
          => log[i].in = log[i - 1].out
  /\ StepsOf("format") # {} => options.prettier # "false"
  /\ (pc \in {"postCode", "return", "done"} /\ options.prettier # "false")
       => StepsOf("format") # {}

\* C1 witness: a call with two user plugins hooked on all four stages and the
\* formatter on has returned
C1_Witness ==
  /\ pc = "done"
  /\ \A st \in PluginStages :
       \E i, j \in StepsOf(st) : log[i].idx = 1 /\ log[j].idx = 2 /\ log[i].who = "user"
  /\ StepsOf("format") # {}
  /\ \E i \in StepsOf("postJson") : log[i].who = "processor"


\* C2 (as amended): the code processor is the last plugin of the list, after the
\* user's, so it never runs before a user-supplied PreJson plugin: when it runs
\* every user PreJson plugin has run, and a user PreJson plugin receives the
\* hooks' code as the caller wrote it, not yet passed through the State
\* Rewriter.  It runs once in a call that gets past the JSON stages.
C2_ProcessorLast ==
  /\ \A i, j \in DOMAIN log :
       (log[i].who = "processor" /\ log[j].who = "user" /\ log[j].stage = "preJson")
          => j < i
  /\ \A j \in StepsOf("preJson") :
       log[j].who = "user" => log[j].in.hooks = given.hooks
  /\ \A i \in DOMAIN log :
       log[i].who = "processor" => log[i].idx = Len(options.plugins)
  /\ StepsOf("assemble") # {}
       => Cardinality({i \in DOMAIN log : log[i].who = "processor"}) = 1

\* C2 witness: the code processor has run in a call in which a user PreJson
\* plugin ran
C2_Witness ==
  /\ \E j \in StepsOf("preJson") : log[j].who = "user" /\ ~log[j].threw
  /\ \E i \in DOMAIN log :
       log[i].who = "processor" /\ log[i].out.hooks # given.hooks

\* C2 (as written): the code processor runs before any user-supplied PreJson
\* plugin.
C2_Original ==
  \A j \in StepsOf("preJson") :
    log[j].who = "user" => \E i \in 1..(j - 1) : log[i].who = "processor"

RECURSIVE NodeNamed(_, _)
NodeNamed(node, name) ==
  \/ node.name = name
  \/ \E i \in DOMAIN node.children : NodeNamed(node.children[i], name)

ComponentHasDot(json) == \E i \in DOMAIN json.children : NodeHasDot(json.children[i])

ComponentHasNode(json, name) ==
  \E i \in DOMAIN json.children : NodeNamed(json.children[i], name)

\* the provider of every context.set entry is in the tree, under its dotted name
ProvidersDotted(json) ==
  \A k \in DOMAIN given.context.set :
    ComponentHasNode(json, given.context.set[k].name \o <<".", "Provider">>)

\* C3 (as amended): of the structural preprocessing only the provider wrapping
\* (with the hasCss and addWrapper computations) happens between the last PreJson
\* and the first PostJson plugin; the dynamic-tag rewriting and the style
\* collection happen after the last PostJson plugin.  So a PostJson plugin
\* receives an IR whose providers are wrapped but whose dotted names, those of
\* the providers included, are not yet rewritten, and what the PostJson plugins
\* return is still rewritten: the rendered IR has no dotted name.
C3_PreprocessingOrder ==
  /\ \A i \in StepsOf("preprocess") :
       /\ \A j \in StepsOf("preJson") : j < i
       /\ \A j \in StepsOf("postJson") : i < j
       /\ ProvidersDotted(log[i].out)
  /\ \A j \in StepsOf("postJson") :
       /\ StepsOf("preprocess") # {}
       /\ ProvidersDotted(log[j].in)
       /\ ~ComponentHasNode(log[j].in, <<"Dynamic">>)
       /\ ComponentHasDot(log[j].in) <=> (ComponentHasDot(given) \/ given.context.set # <<>>)
  /\ \A i \in StepsOf("assemble") :
       /\ \A j \in StepsOf("postJson") : j < i
       /\ ~ComponentHasDot(Json)
       /\ locals.foundDynamicComponents <=> ComponentHasDot(log[i].in)

\* C3 witness: a PostJson plugin of the user received a component with a
\* provider and a dotted tag, and the call went on to assemble the text
C3_Witness ==
  /\ StepsOf("assemble") # {}
  /\ given.context.set # <<>>
  /\ ComponentHasNode(given, <<"foo", ".", "bar">>)
  /\ \E j \in StepsOf("postJson") : log[j].who = "user" /\ ~log[j].threw

\* C3 (as written): the provider wrapping, the dynamic-tag rewriting and the
\* style collection all happen before the first PostJson plugin, so a PostJson
\* plugin receives an IR whose dotted names are already rewritten.
C3_Original ==
  \A j \in StepsOf("postJson") :
    /\ StepsOf("preprocess") # {}
    /\ ~ComponentHasDot(log[j].in)

\* the piece that follows "return (" in the module text: the wrapper's hole
WrapperHole(t) == t[IndexOf(t, "return (") + 1]

\* C4: the root fragment wrapper goes by the root children actually rendered
\* (the non-empty-text children of the IR the PostJson plugins left): zero or
\* two-or-more rendered root children are always wrapped, whatever the PostJson
\* plugins did to the children.
C4_ManyRootsWrapped ==
  \A i \in StepsOf("assemble") :
    Len(SelectSeq(log[i].in.children, filterEmptyTextNodes)) # 1
      => WrapperHole(log[i].out) = "<>"

\* the effect registrations of a module text
Registrations(t) == {i \in DOMAIN t : t[i] = "createEffect(on(() => "}

\* C5: 'on' and 'createEffect' are imported if and only if an onUpdate entry
\* declares dependencies, that is exactly when an effect registration is emitted
\* (one per entry with deps, none for an entry without).
C5_EffectImports ==
  \A i \in StepsOf("assemble") :
    LET hooks    == log[i].in.hooks.onUpdate
        withDeps == {k \in DOMAIN hooks : hooks[k].hasDeps /\ hooks[k].deps # <<>>}
        imported == \E k \in DOMAIN locals.solidJSImports :
                      locals.solidJSImports[k] \in {"on", "createEffect"}
    IN /\ Cardinality(Registrations(log[i].out)) = Cardinality(withDeps)
       /\ imported <=> withDeps # {}

\* the nodes of two trees of the same shape, pair by pair: a dotted name has
\* become Dynamic with the dotted name as the code of its component binding,
\* any other name is unchanged
RECURSIVE DynamicOf(_, _)
DynamicOf(before, after) ==
  /\ IF IncludesDot(before.name)
     THEN /\ after.name = <<"Dynamic">>
          /\ HasKey(after.bindings, "component")
          /\ Entry(after.bindings, "component").code = before.name
     ELSE after.name = before.name
  /\ Len(after.children) = Len(before.children)
  /\ \A i \in DOMAIN before.children : DynamicOf(before.children[i], after.children[i])

Threw == {i \in DOMAIN log : log[i].threw}

\* every failure ends the call: the step that raised is the last one, the call
\* returns no text
FailFast ==
  /\ \A i \in Threw : i = Len(log) /\ pc = "failed"
  /\ pc = "failed" => /\ Threw # {}
                      /\ result = [kind |-> "error", text |-> <<>>]
  /\ result.kind = "text" => Threw = {}

\* C10 (as amended): every failure is fail-fast and terminal: a plugin that
\* raises, or the formatter rejecting the text, ends the call with that error,
\* with no text, no later plugin or stage, no retry.  The formatter is invoked
\* unless the prettier option is false (an option left out counts as on); with
\* prettier false no formatter failure can end the call and the PostCode plugins
\* receive the PreCode output unchanged.
C10_FailFast ==
  /\ FailFast
  /\ StepsOf("format") # {} <=>
       (options.prettier # "false"
        /\ (pc \in {"postCode", "return", "done"}
            \/ (pc = "failed" /\ log[Len(log)].stage \in {"format", "postCode"})))
  /\ options.prettier = "false" =>
       \A i \in StepsOf("postCode") :
         log[i - 1].stage \in {"assemble", "preCode", "postCode"} /\ log[i].in = log[i - 1].out

\* C10 witness: the formatter rejected the text of a call made without the
\* prettier option, after a PreCode plugin had run
C10_Witness ==
  /\ pc = "failed"
  /\ passedOptions.prettier = "undefined"
  /\ log[Len(log)].stage = "format"
  /\ StepsOf("preCode") # {}

\* C10 (as written): the same, with the formatter invoked only when the
\* prettier option is true.
C10_Original ==
  /\ FailFast
  /\ StepsOf("format") # {} => options.prettier = "true"
  /\ options.prettier # "true" =>
       \A i \in StepsOf("postCode") :
         log[i - 1].stage \in {"assemble", "preCode", "postCode"} /\ log[i].in = log[i - 1].out

============================================================================
